---- MODULE Spec2Model ----
(***************************************************************************)
(* Model of the monthly P&L pipeline of fpa_reporting_v2:                  *)
(*   src/src/transformations.py  (netting, mapping, allocations, IFRS 16)  *)
(*   src/src/pl_builder.py       (per-entity P&L, consolidation)           *)
(* DataFrames are sequences of records (one record per row, in row order). *)
(* Amounts are exact rationals <<n, d>> (d > 0, lowest terms): the sums,   *)
(* products and quotients of the code are computed exactly; IEEE rounding  *)
(* of float64 is not represented.                                          *)
(***************************************************************************)
EXTENDS Integers, Sequences, FiniteSets, TLC

VARIABLES
    pc,              \* position in the pipeline being exercised
    fec,             \* ledger lines of the entity (DataFrame fec)
    mapping,         \* account mapping table of the entity
    split_ca_cogs,   \* revenue/COGS proportion table
    split_rh,        \* payroll proportion table
    entity,          \* entity identifier
    total_ms_group,  \* group payroll total handed to split_staff_costs
    net,             \* result of compute_net_by_account
    mapped,          \* the working table "mapped" of transform_entity
    result,          \* value returned by the function under study
    fecs,            \* run-level: entity -> ledger (load_all_fec)
    mappings,        \* run-level: entity -> mapping table (load_all_mappings)
    transformed,     \* transformed_by_entity: entity -> transformed table
    structure,       \* the module constants (PL_STRUCTURE, TOTALS_MAP) in force
    total_ms_by_group, \* run-level: payroll group -> total (run, phase 2)
    ms_handed,       \* run-level: entity -> total_ms_group given to transform_entity
    fec_files        \* run-level: entity -> ledger file found under data/fec

\* what a step of the pipeline only reads
inputs == <<fec, mapping, split_ca_cogs, split_rh, entity, total_ms_group,
            fecs, mappings, structure>>
\* what only run() writes
run_state == <<total_ms_by_group, ms_handed, fec_files>>
vars == <<pc, inputs, net, mapped, result, transformed, run_state>>

(***************************************************************************)
(* Exact rational arithmetic                                               *)
(***************************************************************************)
Abs(x) == IF x < 0 THEN -x ELSE x

RECURSIVE Gcd(_, _)
Gcd(a, b) == IF b = 0 THEN a ELSE Gcd(b, a % b)

\* the rational n/d in lowest terms with a positive denominator (d # 0)
Norm(n, d) ==
    LET g == Gcd(Abs(n), Abs(d))
        s == IF d < 0 THEN -1 ELSE 1
    IN  <<(s * n) \div g, (s * d) \div g>>

Rat(n) == <<n, 1>>
Zero == Rat(0)
RAdd(a, b) == Norm(a[1] * b[2] + b[1] * a[2], a[2] * b[2])
RNeg(a) == <<-a[1], a[2]>>
RMul(a, b) == Norm(a[1] * b[1], a[2] * b[2])
RDiv(a, b) == Norm(a[1] * b[2], a[2] * b[1])
RPos(a) == a[1] > 0

\* Series.sum(): the sum of the column col of the rows of a table (0.0 when empty)
RECURSIVE ColSum(_, _)
ColSum(df, col) ==
    IF df = <<>> THEN Zero ELSE RAdd(df[1][col], ColSum(Tail(df), col))

\* all sequences over S of length at most n
SeqUpTo(S, n) == UNION {[1..k -> S] : k \in 0..n}

\* pandas' missing value (NaN / NaT) in a column of strings
NaN == "<NaN>"

(***************************************************************************)
(* 1. compute_net_by_account  (src/src/transformations.py:8-35)            *)
(***************************************************************************)
\* bounds of the ledgers explored
MaxLines == 2

\* the target month, pd.to_datetime(period, format="%Y%m"), as <<year, month>>
Period == <<2025, 12>>
\* an unparsed posting date (errors="coerce" in the loader gives NaT)
NaT == <<>>

Journals == {"AN", "VT"}
\* account numbers of the model, in the order groupby sorts them
AccountOrder == <<"411", "601", "613", "641", "706">>
\* the accounts of the ledgers explored
Accounts == {"411", "601", "706"}
Dates == {<<2025, 12>>, <<2025, 11>>, <<2024, 12>>, NaT}
\* (Debit, Credit) pairs of a line
DebitCredit == {<<30, 100>>, <<80, 10>>}

LedgerLines ==
    [JournalCode : Journals, CompteNum : Accounts, EcritureDate : Dates,
     DC : DebitCredit]

\* CompteNum.str[0]
compte_classe(c) ==
    CASE c \in {"601", "606", "613", "641", "661"} -> "6"
      [] c \in {"706", "707"} -> "7"
      [] OTHER -> "4"

\* EcritureDate.dt.year / .dt.month : NaN for NaT, and NaN equals nothing
dt_year_is(d, y) == d # NaT /\ d[1] = y
dt_month_is(d, m) == d # NaT /\ d[2] = m

\* mutant: the revenue sign rule is lost (Debit - Credit for every class)
line_net_NoClass7(r) == r.DC[1] - r.DC[2]

\* the lambda of df.apply(..., axis=1), lines 24-28
line_net(r) ==
    IF compte_classe(r.CompteNum) = "7"
    THEN r.DC[2] - r.DC[1]
    ELSE r.DC[1] - r.DC[2]

\* lines 17-21: the boolean mask
month_filter(ledger, p) ==
    LET keep(r) == /\ r.JournalCode # "AN"
                   /\ dt_year_is(r.EcritureDate, p[1])
                   /\ dt_month_is(r.EcritureDate, p[2])
    IN  SelectSeq(ledger, keep)

compute_net_by_account(ledger, p) ==
    LET df0 == month_filter(ledger, p)
        df == [i \in DOMAIN df0 |->
                 [CompteNum |-> df0[i].CompteNum,
                  montant_net |-> Rat(line_net(df0[i]))]]
        present(a) == \E i \in DOMAIN df : df[i].CompteNum = a
        keys == SelectSeq(AccountOrder, present)
        group(a) == LET same(r) == r.CompteNum = a IN SelectSeq(df, same)
    IN  [k \in DOMAIN keys |->
           [numero_compte |-> keys[k],
            montant_net |-> ColSum(group(keys[k]), "montant_net")]]

\* ---- specification: the Account Netter applied to every bounded ledger
InitNet ==
    /\ pc = "start"
    /\ fec \in SeqUpTo(LedgerLines, MaxLines)
    /\ mapping = <<>> /\ split_ca_cogs = <<>> /\ split_rh = <<>>
    /\ entity = "FR" /\ total_ms_group = Zero
    /\ net = <<>> /\ mapped = <<>> /\ result = <<>>
    /\ total_ms_by_group = <<>> /\ ms_handed = <<>> /\ fec_files = <<>>
    /\ fecs = <<>> /\ mappings = <<>>
    /\ transformed = <<>> /\ structure = <<>>

NetStep ==
    /\ pc = "start"
    /\ net' = compute_net_by_account(fec, Period)
    /\ pc' = "net"
    /\ UNCHANGED <<run_state, inputs, mapped, result, transformed>>

NextNet == NetStep
SpecNet == InitNet /\ [][NextNet]_vars

\* the lines of the ledger that count for account a in the target month
EligibleLines(a) ==
    {i \in DOMAIN fec : /\ fec[i].CompteNum = a
                        /\ fec[i].JournalCode # "AN"
                        /\ fec[i].EcritureDate = Period}

RECURSIVE SignedSum(_, _)
SignedSum(I, a) ==
    IF I = {} THEN 0
    ELSE LET i == CHOOSE j \in I : TRUE
             v == IF a \in {"706", "707"}
                  THEN fec[i].DC[2] - fec[i].DC[1]
                  ELSE fec[i].DC[1] - fec[i].DC[2]
         IN  v + SignedSum(I \ {i}, a)

\* C1: the output of compute_net_by_account holds exactly one row per account
\* with an eligible line (journal not AN, posting date in the target month),
\* carrying the sum of Credit - Debit (class 7) or Debit - Credit (others) over
\* those lines; AN lines, lines of other months and undated lines add nothing.
C1_NetByAccount ==
    pc = "net" =>
        /\ \A a \in Accounts :
             Cardinality({k \in DOMAIN net : net[k].numero_compte = a})
               = IF EligibleLines(a) # {} THEN 1 ELSE 0
        /\ \A k \in DOMAIN net :
             /\ net[k].numero_compte \in Accounts
             /\ net[k].montant_net
                  = Rat(SignedSum(EligibleLines(net[k].numero_compte),
                                  net[k].numero_compte))

\* a class-7 line credit=100/debit=30 nets to +70 next to an excluded AN line
C1_Witness ==
    /\ pc = "net"
    /\ Len(fec) = 2
    /\ \E i, j \in DOMAIN fec :
         /\ fec[i].CompteNum = "706" /\ fec[i].DC = <<30, 100>>
         /\ fec[i].JournalCode = "VT" /\ fec[i].EcritureDate = Period
         /\ fec[j].JournalCode = "AN" /\ fec[j].EcritureDate = Period
    /\ net = <<[numero_compte |-> "706", montant_net |-> Rat(70)]>>

(***************************************************************************)
(* 2. apply_mapping  (src/src/transformations.py:42-85)                    *)
(***************************************************************************)
MaxMapRows == 2

isna(x) == x = NaN

\* lines 58-83: P&L label -> code, for the lines that come straight from the ledger
label_to_code ==
    [l \in {"Furnitures", "Rents & other charges",
            "Maintenance & repairs + miscellaneous", "Insurances",
            "Accounting & audit fees", "Legal fees", "Postal charges",
            "Internet & telecom", "Banking fees", "Pro. Asso. Subscription",
            "Other Fees", "Internal events", "Exhibition & Events fees",
            "Accomodation & transport", "Reception",
            "Video / Image /Consulting  Providers",
            "Press & software subscriptions", "Miscellaneous",
            "Business provider fees", "China Office", "Freelance", "Server",
            "D&A on fixed assets", "D&A - Milestones"} |->
       CASE l = "Furnitures" -> "i1"
         [] l = "Rents & other charges" -> "i2"
         [] l = "Maintenance & repairs + miscellaneous" -> "i4"
         [] l = "Insurances" -> "i5"
         [] l = "Accounting & audit fees" -> "i6"
         [] l = "Legal fees" -> "i7"
         [] l = "Postal charges" -> "i8"
         [] l = "Internet & telecom" -> "i9"
         [] l = "Banking fees" -> "i10"
         [] l = "Pro. Asso. Subscription" -> "i11"
         [] l = "Other Fees" -> "i12"
         [] l = "Internal events" -> "j1"
         [] l = "Exhibition & Events fees" -> "j2"
         [] l = "Accomodation & transport" -> "j3"
         [] l = "Reception" -> "j4"
         [] l = "Video / Image /Consulting  Providers" -> "f1"
         [] l = "Press & software subscriptions" -> "f2"
         [] l = "Miscellaneous" -> "f3"
         [] l = "Business provider fees" -> "e3"
         [] l = "China Office" -> "e4"
         [] l = "Freelance" -> "e1"
         [] l = "Server" -> "e2"
         [] l = "D&A on fixed assets" -> "m1"
         [] l = "D&A - Milestones" -> "m2"]

\* Series.replace(label_to_code) on one value
replace_label(x) == IF x \in DOMAIN label_to_code THEN label_to_code[x] ELSE x

RECURSIVE Flatten(_)
Flatten(ss) == IF ss = <<>> THEN <<>> ELSE Head(ss) \o Flatten(Tail(ss))

\* line 47: net_by_account.merge(mapping, on="numero_compte", how="left"):
\* one row per (balance, matching mapping row), in the balances' order; a balance
\* without a mapping row keeps one row whose mapping columns are NaN
merge_left(nets, map) ==
    LET joined(n) ==
            LET same(m) == m.numero_compte = n.numero_compte
                hits == SelectSeq(map, same)
            IN  IF hits = <<>>
                THEN <<[numero_compte |-> n.numero_compte,
                        montant_net |-> n.montant_net,
                        mapping_pl_detail |-> NaN,
                        mapping_pl_category |-> NaN]>>
                ELSE [j \in DOMAIN hits |->
                        [numero_compte |-> n.numero_compte,
                         montant_net |-> n.montant_net,
                         mapping_pl_detail |-> hits[j].mapping_pl_detail,
                         mapping_pl_category |-> hits[j].mapping_pl_category]]
    IN  Flatten([i \in DOMAIN nets |-> joined(nets[i])])

\* line 55: the rows kept for the P&L
mapped_on_pl(r) ==
    ~isna(r.mapping_pl_detail) /\ r.mapping_pl_detail # "NA"

apply_mapping(nets, map) ==
    LET df == SelectSeq(merge_left(nets, map), mapped_on_pl)
    IN  [i \in DOMAIN df |->
           [df[i] EXCEPT !.mapping_pl_detail = replace_label(@)]]

\* ---- specification: the PCG Mapper applied to bounded balances and mappings
MapAccounts == {"601", "706"}
MapCodes ==
    {NaN, "NA", "na", "nan", " ", "below_ebit", "management_fees",
     "SALES", "Furnitures", "Rents & other charges"}
MapRows ==
    [numero_compte : MapAccounts, mapping_pl_detail : MapCodes,
     mapping_pl_category : {"Ops"}]
NetAmounts == {Rat(70), Rat(-20)}

\* the tables compute_net_by_account can return: accounts distinct and sorted
NetTables ==
    {LET keep(a) == a \in S IN
       [k \in DOMAIN SelectSeq(AccountOrder, keep) |->
          [numero_compte |-> SelectSeq(AccountOrder, keep)[k],
           montant_net |-> f[SelectSeq(AccountOrder, keep)[k]]]]
     : f \in [MapAccounts -> NetAmounts], S \in SUBSET MapAccounts}

InitMap ==
    /\ pc = "net"
    /\ net \in NetTables
    /\ mapping \in SeqUpTo(MapRows, MaxMapRows)
    /\ fec = <<>> /\ split_ca_cogs = <<>> /\ split_rh = <<>>
    /\ entity = "FR" /\ total_ms_group = Zero
    /\ mapped = <<>> /\ result = <<>>
    /\ total_ms_by_group = <<>> /\ ms_handed = <<>> /\ fec_files = <<>>
    /\ fecs = <<>> /\ mappings = <<>>
    /\ transformed = <<>> /\ structure = <<>>

MapStep ==
    /\ pc = "net"
    /\ mapped' = apply_mapping(net, mapping)
    /\ pc' = "mapped"
    /\ UNCHANGED <<run_state, inputs, net, result, transformed>>

NextMap == MapStep
SpecMap == InitMap /\ [][NextMap]_vars

\* the mapping rows of account a
MappingRowsOf(a) == {j \in DOMAIN mapping : mapping[j].numero_compte = a}
DuplicatedAccounts == {a \in MapAccounts : Cardinality(MappingRowsOf(a)) > 1}

\* codes the spec excludes from the P&L stream (letter-case variants listed)
ExcludedCodes ==
    {NaN, "", " ", "na", "Na", "nA", "NA", "nan", "Nan", "NAN", "NaN",
     "below_ebit", "management_fees"}

\* C8 (as claimed): no row of apply_mapping's output carries a code that is
\* missing, blank, na/nan in any letter case, NA, below_ebit or management_fees
\* (stated for mapping tables without duplicate accounts).
C8_ExcludedCodesDropped ==
    (pc = "mapped" /\ DuplicatedAccounts = {}) =>
        \A i \in DOMAIN mapped : mapped[i].mapping_pl_detail \notin ExcludedCodes

\* C10 (as claimed): an account that the mapping table lists twice never has
\* its balance in the output of apply_mapping (the run aborts instead).
C10_DuplicateMappingAborts ==
    pc = "mapped" =>
        \A a \in DuplicatedAccounts :
            \A i \in DOMAIN mapped : mapped[i].numero_compte # a

(***************************************************************************)
(* 3. split_revenue_cogs_by_bu  (src/src/transformations.py:92-138)        *)
(***************************************************************************)
MaxSplitRows == 2

\* lines 122-129: business unit -> target code, per bucket type
bu_map(pl_type) ==
    IF pl_type = "Revenue"
    THEN [b \in {"Publishing", "Distribution", "RR", "MGG", "Autres B2C", "B2B"} |->
            CASE b = "Publishing" -> "a1" [] b = "Distribution" -> "a2"
              [] b = "RR" -> "a3" [] b = "MGG" -> "a4"
              [] b = "Autres B2C" -> "a5" [] b = "B2B" -> "a6"]
    ELSE [b \in {"Publishing", "Distribution", "Celsius"} |->
            CASE b = "Publishing" -> "b1" [] b = "Distribution" -> "b2"
              [] b = "Celsius" -> "b3"]

\* Series.map(dict): NaN for a key the dict does not hold
map_bu(pl_type, bu) ==
    IF bu \in DOMAIN bu_map(pl_type) THEN bu_map(pl_type)[bu] ELSE NaN

\* df[df["mapping_pl_detail"] == label]["montant_net"].sum()
bucket_total(df, label) ==
    LET has(r) == r.mapping_pl_detail = label
    IN  ColSum(SelectSeq(df, has), "montant_net")

\* df[df["mapping_pl_detail"] != label]
drop_bucket(df, label) ==
    LET other(r) == r.mapping_pl_detail # label IN SelectSeq(df, other)

\* mutant: a bucket without proportions is booked under its first target code
no_proportions_FirstCode(df, pl_type, mapping_label) ==
    drop_bucket(df, mapping_label)
        \o <<[numero_compte |-> NaN,
              montant_net |-> bucket_total(df, mapping_label),
              mapping_pl_detail |-> IF pl_type = "Revenue" THEN "a1" ELSE "b1",
              mapping_pl_category |-> pl_type]>>

\* lines 110-112: split_type.empty -> continue; the table is left as it is,
\* the bucket row included
no_proportions(df, pl_type, mapping_label) == df

\* one turn of the loop of lines 103-136
split_one_bucket(df, split, pl_type, mapping_label) ==
    LET total_fec == bucket_total(df, mapping_label)
        of_type(r) == r.type = pl_type
        split_type == SelectSeq(split, of_type)
        total_split == ColSum(split_type, "Montant")
        new_rows ==
            [i \in DOMAIN split_type |->
               [numero_compte |-> NaN,
                montant_net |->
                    RMul(RDiv(split_type[i].Montant, total_split), total_fec),
                mapping_pl_detail |-> map_bu(pl_type, split_type[i].BU),
                mapping_pl_category |-> pl_type]]
    IN  IF total_fec = Zero THEN df
        ELSE IF split_type = <<>> THEN no_proportions(df, pl_type, mapping_label)
        ELSE IF total_split = Zero THEN df
        ELSE drop_bucket(df, mapping_label) \o new_rows

split_revenue_cogs_by_bu(df, split_table, ent) ==
    LET of_entity(r) == r.entite = ent
        split == SelectSeq(split_table, of_entity)
        after_revenue == split_one_bucket(df, split, "Revenue", "SALES")
    IN  split_one_bucket(after_revenue, split, "COGS", "COGS")

\* ---- specification: the allocator applied to bounded proportion tables
\* a mapped row as apply_mapping leaves it
MappedRow(compte, detail, amount) ==
    [numero_compte |-> compte, montant_net |-> Rat(amount),
     mapping_pl_detail |-> detail, mapping_pl_category |-> "Ops"]

\* the rows of seq whose position is in S, in order
Pick(seq, S) ==
    LET keep(i) == i \in S
        idx == SelectSeq([i \in DOMAIN seq |-> i], keep)
    IN  [k \in DOMAIN idx |-> seq[idx[k]]]
SubTables(seq) == {Pick(seq, S) : S \in SUBSET DOMAIN seq}

BuMappedRows ==
    <<MappedRow("706", "SALES", 1000), MappedRow("707", "SALES", -1000),
      MappedRow("601", "COGS", 500), MappedRow("606", "i1", 20)>>

SplitRows ==
    [entite : {"FR", "PID"}, type : {"Revenue", "COGS"},
     BU : {"Publishing", "Celsius"}, Montant : {Rat(60), Rat(40), Rat(-60)}]

InitBU ==
    /\ pc = "mapped"
    /\ mapped \in SubTables(BuMappedRows)
    /\ split_ca_cogs \in SeqUpTo(SplitRows, MaxSplitRows)
    /\ entity = "FR"
    /\ fec = <<>> /\ mapping = <<>> /\ split_rh = <<>>
    /\ total_ms_group = Zero /\ net = <<>> /\ result = <<>>
    /\ total_ms_by_group = <<>> /\ ms_handed = <<>> /\ fec_files = <<>>
    /\ fecs = <<>> /\ mappings = <<>>
    /\ transformed = <<>> /\ structure = <<>>

SplitBUStep ==
    /\ pc = "mapped"
    /\ result' = split_revenue_cogs_by_bu(mapped, split_ca_cogs, entity)
    /\ pc' = "split_bu"
    /\ UNCHANGED <<run_state, inputs, net, mapped, transformed>>

NextBU == SplitBUStep
SpecBU == InitBU /\ [][NextBU]_vars

\* the proportion rows of the entity for a bucket type, and their sum
ProportionRows(pl_type) ==
    {i \in DOMAIN split_ca_cogs :
        split_ca_cogs[i].entite = entity /\ split_ca_cogs[i].type = pl_type}
RECURSIVE MontantSum(_)
MontantSum(I) ==
    IF I = {} THEN Zero
    ELSE LET i == CHOOSE j \in I : TRUE
         IN  RAdd(split_ca_cogs[i].Montant, MontantSum(I \ {i}))

\* rows of the output that the allocator generated for a bucket type
GeneratedBU(pl_type) ==
    LET gen(r) == isna(r.numero_compte) /\ r.mapping_pl_category = pl_type
    IN  SelectSeq(result, gen)
TargetCodes(pl_type) ==
    IF pl_type = "Revenue" THEN {"a1", "a2", "a3", "a4", "a5", "a6"}
    ELSE {"b1", "b2", "b3"}
UnderTargetCodes(pl_type) ==
    LET tgt(r) == r.mapping_pl_detail \in TargetCodes(pl_type)
    IN  SelectSeq(GeneratedBU(pl_type), tgt)

Allocatable(pl_type, label) ==
    /\ bucket_total(mapped, label) # Zero
    /\ ProportionRows(pl_type) # {}
    /\ MontantSum(ProportionRows(pl_type)) # Zero

\* the generated rows of an allocatable bucket sum to total_fec
PartitionSum(pl_type, label) ==
    Allocatable(pl_type, label) =>
        ColSum(GeneratedBU(pl_type), "montant_net") = bucket_total(mapped, label)

\* C4 (as claimed): for an allocatable bucket the generated rows sum to
\* total_fec and each carries the fixed target code of its business unit, so
\* that the whole of total_fec is found under the bucket's target codes.
C4_PartitionUnderTargetCodes ==
    pc = "split_bu" =>
        \A b \in {<<"Revenue", "SALES">>, <<"COGS", "COGS">>} :
            /\ PartitionSum(b[1], b[2])
            /\ Allocatable(b[1], b[2]) =>
                 /\ \A i \in DOMAIN GeneratedBU(b[1]) :
                      GeneratedBU(b[1])[i].mapping_pl_detail \in TargetCodes(b[1])
                 /\ ColSum(UnderTargetCodes(b[1]), "montant_net")
                      = bucket_total(mapped, b[2])

\* the sum part alone, which the code does satisfy in exact arithmetic
C4_SumOnly ==
    pc = "split_bu" =>
        \A b \in {<<"Revenue", "SALES">>, <<"COGS", "COGS">>} :
            PartitionSum(b[1], b[2])

(***************************************************************************)
(* 4. split_staff_costs  (src/src/transformations.py:145-248)              *)
(***************************************************************************)
MaxRhRows == 2

\* total_ms_group = None
None == <<>>
ms_label == "Personnel costs to be allocated"

\* lines 159-165: rh_group.get(entity, entity)
rh_group(ent) ==
    CASE ent \in {"FR", "PID"} -> "PID+FR"
      [] ent \in {"CELSIUS", "VERTICAL"} -> "CELSIUS+VERTICAL"
      [] OTHER -> ent

staff_lines == {"Operating staff costs", "Non-operating staff costs"}
activation_lines ==
    {"Operating activation", "Activation Liveops",
     "Activation Internal Projects", "CIJV", "Non-operating activation"}

\* lines 216-225
rh_to_pl(t) ==
    CASE t = "Operating staff costs" -> "d1"
      [] t = "Operating activation" -> "d2"
      [] t = "Activation Liveops" -> "d3"
      [] t = "Activation Internal Projects" -> "d4"
      [] t = "CIJV" -> "d5"
      [] t = "Non-operating staff costs" -> "h1"
      [] t = "Non-operating activation" -> "h2"
      [] t = "D&A on HR" -> "m3"
      [] OTHER -> NaN

\* lines 228-236: the category given to a staff row and to an activation row
staff_category(t) ==
    IF t = "Operating staff costs"
    THEN "Operating staff costs" ELSE "Non-operating staff costs"
activation_category(t) ==
    IF t \in {"Operating activation", "Activation Liveops",
              "Activation Internal Projects", "CIJV"}
    THEN "Operating staff costs" ELSE "Non-operating staff costs"

\* mutant: the depreciation row repeats the activations instead of mirroring them
da_hr_amount_SameSign(total_activations) == total_activations

\* line 213: "montant_net": -total_activations
da_hr_amount(total_activations) == RNeg(total_activations)

\* line 206: total_ms_entity / base if base > 0 else 0
ratio_entity(total_ms_entity, base) ==
    IF RPos(base) THEN RDiv(total_ms_entity, base) ELSE Zero

\* lines 199-203: the amount of one staff row
staff_amount(montant, total_staff_rh, total_ms_entity) ==
    IF RPos(total_staff_rh)
    THEN RMul(RDiv(montant, total_staff_rh), total_ms_entity)
    ELSE Zero

split_staff_costs(df, rh_table, ent, ms_group) ==
    LET group == rh_group(ent)
        of_group(r) == r.entite = group
        rh == SelectSeq(rh_table, of_group)
        total_ms_entity == bucket_total(df, ms_label)
        base == IF ms_group # None THEN ms_group ELSE total_ms_entity
        total_rh == ColSum(rh, "montant")
        is_staff(r) == r.type \in staff_lines
        is_activation(r) == r.type \in activation_lines
        rh_staff0 == SelectSeq(rh, is_staff)
        rh_act0 == SelectSeq(rh, is_activation)
        total_staff_rh == ColSum(rh_staff0, "montant")
        rh_staff ==
            [i \in DOMAIN rh_staff0 |->
               [numero_compte |-> NaN,
                montant_net |->
                    staff_amount(rh_staff0[i].montant, total_staff_rh,
                                 total_ms_entity),
                mapping_pl_detail |-> rh_to_pl(rh_staff0[i].type),
                mapping_pl_category |-> staff_category(rh_staff0[i].type)]]
        ratio == ratio_entity(total_ms_entity, base)
        rh_activations ==
            [i \in DOMAIN rh_act0 |->
               [numero_compte |-> NaN,
                montant_net |-> RMul(rh_act0[i].montant, ratio),
                mapping_pl_detail |-> rh_to_pl(rh_act0[i].type),
                mapping_pl_category |-> activation_category(rh_act0[i].type)]]
        total_activations == ColSum(rh_activations, "montant_net")
        da_hr ==
            <<[numero_compte |-> NaN,
               montant_net |-> da_hr_amount(total_activations),
               mapping_pl_detail |-> "m3",
               mapping_pl_category |-> "D&A"]>>
    IN  IF rh = <<>> THEN df
        ELSE IF base = Zero THEN df
        ELSE IF total_rh = Zero THEN df
        ELSE drop_bucket(df, ms_label) \o rh_staff \o rh_activations \o da_hr

\* ---- specification: the payroll allocator applied to bounded proportion tables
RhMappedRows ==
    <<MappedRow("641", ms_label, 1000), MappedRow("645", ms_label, -400),
      MappedRow("606", "i1", 20), MappedRow("681", "m3", 7)>>

RhRows ==
    [entite : {"PID+FR", "CELSIUS+VERTICAL"},
     type : {"Operating staff costs", "Non-operating staff costs",
             "Operating activation", "Non-operating activation", "Bonus"},
     montant : {Rat(300), Rat(-100)}]

InitRH ==
    /\ pc = "split_bu"
    /\ mapped \in SubTables(RhMappedRows)
    /\ split_rh \in SeqUpTo(RhRows, MaxRhRows)
    /\ entity \in {"FR", "VERTICAL"}
    /\ total_ms_group \in {None, Zero, Rat(2000), Rat(-500)}
    /\ fec = <<>> /\ mapping = <<>> /\ split_ca_cogs = <<>>
    /\ net = <<>> /\ result = <<>>
    /\ total_ms_by_group = <<>> /\ ms_handed = <<>> /\ fec_files = <<>>
    /\ fecs = <<>> /\ mappings = <<>>
    /\ transformed = <<>> /\ structure = <<>>

SplitStaffStep ==
    /\ pc = "split_bu"
    /\ result' = split_staff_costs(mapped, split_rh, entity, total_ms_group)
    /\ pc' = "staff"
    /\ UNCHANGED <<run_state, inputs, net, mapped, transformed>>

NextRH == SplitStaffStep
SpecRH == InitRH /\ [][NextRH]_vars

\* rows of the output that split_staff_costs generated
GeneratedRH ==
    LET gen(r) == isna(r.numero_compte) IN SelectSeq(result, gen)
ActivationCodes == {"d2", "d3", "d4", "d5", "h2"}
GeneratedWithCode(C) ==
    LET in(r) == r.mapping_pl_detail \in C IN SelectSeq(GeneratedRH, in)

\* C5: whenever split_staff_costs generates rows, the generated activation
\* rows (d2, d3, d4, d5, h2) and the generated D&A on HR row (m3) sum to
\* exactly 0, and exactly one m3 row is generated.
C5_ActivationMirror ==
    (pc = "staff" /\ GeneratedRH # <<>>) =>
        /\ RAdd(ColSum(GeneratedWithCode(ActivationCodes), "montant_net"),
                ColSum(GeneratedWithCode({"m3"}), "montant_net")) = Zero
        /\ Len(GeneratedWithCode({"m3"})) = 1

\* rows were generated with a nonzero activation mirrored by m3
C5_Witness ==
    /\ pc = "staff"
    /\ Len(GeneratedWithCode(ActivationCodes)) = 2
    /\ Len(GeneratedWithCode({"m3"})) = 1
    /\ ColSum(GeneratedWithCode({"m3"}), "montant_net") = Rat(-300)

(***************************************************************************)
(* 5. apply_ifrs16  (src/src/transformations.py:255-280)                   *)
(***************************************************************************)
MaxMappedRows == 3

\* mutant: the activation row repeats the rent instead of cancelling it
ifrs16_activation_amount_Plus(loyers) == loyers

\* line 270: "montant_net": -loyers
ifrs16_activation_amount(loyers) == RNeg(loyers)

\* mutant: the two rows replace the rent rows instead of being added to them
apply_ifrs16_Replacing(df) ==
    LET loyers == bucket_total(df, "Rents & other charges")
    IN  IF loyers = Zero THEN df
        ELSE drop_bucket(df, "Rents & other charges")
               \o <<[numero_compte |-> NaN,
                     montant_net |-> ifrs16_activation_amount(loyers),
                     mapping_pl_detail |-> "IFRS 16 activation",
                     mapping_pl_category |-> "Structure costs"],
                    [numero_compte |-> NaN,
                     montant_net |-> loyers,
                     mapping_pl_detail |-> "D&A on IFRS 16",
                     mapping_pl_category |-> "D&A"]>>

\* lines 255-280
apply_ifrs16(df) ==
    LET loyers == bucket_total(df, "Rents & other charges")
        ifrs16_activation ==
            [numero_compte |-> NaN,
             montant_net |-> ifrs16_activation_amount(loyers),
             mapping_pl_detail |-> "IFRS 16 activation",
             mapping_pl_category |-> "Structure costs"]
        ifrs16_da ==
            [numero_compte |-> NaN,
             montant_net |-> loyers,
             mapping_pl_detail |-> "D&A on IFRS 16",
             mapping_pl_category |-> "D&A"]
    IN  IF loyers = Zero THEN df
        ELSE df \o <<ifrs16_activation, ifrs16_da>>

\* ---- specification: the lease reclassifier applied to bounded mapped tables
IfrsRows ==
    {MappedRow("613", "Rents & other charges", 300),
     MappedRow("614", "Rents & other charges", -300),
     MappedRow("615", "Rents & other charges", 120),
     MappedRow("616", "i2", 50),
     MappedRow("606", "i1", 20)}

InitIFRS ==
    /\ pc = "staff"
    /\ mapped \in SeqUpTo(IfrsRows, MaxMappedRows)
    /\ entity = "FR"
    /\ fec = <<>> /\ mapping = <<>> /\ split_ca_cogs = <<>> /\ split_rh = <<>>
    /\ total_ms_group = None /\ net = <<>> /\ result = <<>>
    /\ total_ms_by_group = <<>> /\ ms_handed = <<>> /\ fec_files = <<>>
    /\ fecs = <<>> /\ mappings = <<>>
    /\ transformed = <<>> /\ structure = <<>>

Ifrs16Step ==
    /\ pc = "staff"
    /\ result' = apply_ifrs16(mapped)
    /\ pc' = "ifrs16"
    /\ UNCHANGED <<run_state, inputs, net, mapped, transformed>>

NextIFRS == Ifrs16Step
SpecIFRS == InitIFRS /\ [][NextIFRS]_vars

\* the rent sum of the input, and the rows of the output beyond the input's
RentSum ==
    LET I == {i \in DOMAIN mapped :
                 mapped[i].mapping_pl_detail = "Rents & other charges"}
        S[J \in SUBSET I] ==
            IF J = {} THEN Zero
            ELSE LET j == CHOOSE k \in J : TRUE
                 IN  RAdd(mapped[j].montant_net, S[J \ {j}])
    IN  S[I]
AddedRows == SubSeq(result, Len(mapped) + 1, Len(result))
AddedAmounts(detail) ==
    {AddedRows[i].montant_net :
        i \in {j \in DOMAIN AddedRows : AddedRows[j].mapping_pl_detail = detail}}

\* C6 (as claimed): with a nonzero rent sum, the generated lease-activation row
\* and the generated D&A on IFRS 16 row both carry +rent.
C6_BothRowsPlusRent ==
    (pc = "ifrs16" /\ RentSum # Zero) =>
        /\ AddedAmounts("IFRS 16 activation") = {RentSum}
        /\ AddedAmounts("D&A on IFRS 16") = {RentSum}

\* C6 (amended): with a nonzero rent sum, exactly two rows are generated: the
\* lease-activation row carries -rent and the D&A on IFRS 16 row carries +rent.
C6_ActivationMinusRent ==
    (pc = "ifrs16" /\ RentSum # Zero) =>
        /\ Len(AddedRows) = 2
        /\ AddedAmounts("IFRS 16 activation") = {RNeg(RentSum)}
        /\ AddedAmounts("D&A on IFRS 16") = {RentSum}

\* a rent of 300 + 120 was reclassified
C6_Witness ==
    /\ pc = "ifrs16"
    /\ RentSum = Rat(420)
    /\ Len(AddedRows) = 2
    /\ AddedRows[1].montant_net = Rat(-420)

(***************************************************************************)
(* 6. transform_entity  (src/src/transformations.py:287-321)               *)
(***************************************************************************)
\* the strings that occur as mapping_pl_detail, in the order groupby sorts them
DetailOrder ==
    <<" ",
      "Accomodation & transport",
      "Accounting & audit fees",
      "Activation Internal Projects",
      "Activation Liveops",
      "Autres B2C",
      "B2B",
      "Banking fees",
      "Business provider fees",
      "CIJV",
      "COGS",
      "Celsius",
      "China Office",
      "Contribution Margin",
      "D&A",
      "D&A - Milestones",
      "D&A on HR",
      "D&A on IFRS 16",
      "D&A on fixed assets",
      "DA",
      "Distribution",
      "EBIT",
      "EBITDA",
      "Events",
      "Events, accomodation and transport",
      "Exhibition & Events fees",
      "Freelance",
      "Furnitures",
      "Gross Margin",
      "IFRS 16 activation",
      "Insurances",
      "Internal events",
      "Internet & telecom",
      "Legal fees",
      "MGG",
      "Maintenance & repairs + miscellaneous",
      "Marketing",
      "Marketing & Other Opex",
      "Miscellaneous",
      "NA",
      "Non operating costs",
      "Non-op Staff",
      "Non-operating activation",
      "Non-operating staff costs",
      "Operating activation",
      "Operating staff costs",
      "Opex Staff",
      "Other Fees",
      "Outsourcing",
      "Outsourcing costs",
      "Personnel costs to be allocated",
      "Postal charges",
      "Press & software subscriptions",
      "Pro. Asso. Subscription",
      "Publishing",
      "RR",
      "Reception",
      "Rents & other charges",
      "Revenue",
      "SALES",
      "Server",
      "Structure",
      "Structure costs",
      "Video / Image /Consulting  Providers",
      "a1",
      "a2",
      "a3",
      "a4",
      "a5",
      "a6",
      "b1",
      "b2",
      "b3",
      "below_ebit",
      "c1",
      "d1",
      "d2",
      "d3",
      "d4",
      "d5",
      "e1",
      "e2",
      "e3",
      "e4",
      "f1",
      "f2",
      "f3",
      "g1",
      "h1",
      "h2",
      "i1",
      "i10",
      "i11",
      "i12",
      "i2",
      "i3",
      "i4",
      "i5",
      "i6",
      "i7",
      "i8",
      "i9",
      "j1",
      "j2",
      "j3",
      "j4",
      "k1",
      "l1",
      "m1",
      "m2",
      "m3",
      "m4",
      "management_fees",
      "n1",
      "na",
      "nan">>

\* the strings that occur as mapping_pl_category, in the order groupby sorts them
CategoryOrder ==
    <<"COGS", "D&A", "Non-operating staff costs", "Operating staff costs",
      "Ops", "Revenue", "Structure costs">>

\* lines 315-319: groupby([detail, category]).sum() drops the rows whose key
\* holds a NaN, sorts the groups by key, and every row is tagged with the entity
aggregate(df, ent) ==
    LET keyed(r) == ~isna(r.mapping_pl_detail) /\ ~isna(r.mapping_pl_category)
        rows == SelectSeq(df, keyed)
        has_detail(x) == \E i \in DOMAIN rows : rows[i].mapping_pl_detail = x
        details == SelectSeq(DetailOrder, has_detail)
        groups_of(x) ==
            LET has_cat(c) ==
                    \E i \in DOMAIN rows : /\ rows[i].mapping_pl_detail = x
                                           /\ rows[i].mapping_pl_category = c
                cats == SelectSeq(CategoryOrder, has_cat)
                group(c) ==
                    LET same(r) == /\ r.mapping_pl_detail = x
                                   /\ r.mapping_pl_category = c
                    IN  SelectSeq(rows, same)
            IN  [k \in DOMAIN cats |->
                   [mapping_pl_detail |-> x,
                    mapping_pl_category |-> cats[k],
                    montant_net |-> ColSum(group(cats[k]), "montant_net"),
                    entite |-> ent]]
    IN  Flatten([k \in DOMAIN details |-> groups_of(details[k])])

transform_entity(ledger, map, split_table, rh_table, ent, p, ms_group) ==
    LET nets == compute_net_by_account(ledger, p)
        m1 == apply_mapping(nets, map)
        m2 == split_revenue_cogs_by_bu(m1, split_table, ent)
        m3 == split_staff_costs(m2, rh_table, ent, ms_group)
        m4 == apply_ifrs16(m3)
    IN  aggregate(m4, ent)

(***************************************************************************)
(* 7. P&L structure and builder  (src/src/pl_builder.py)                   *)
(***************************************************************************)
\* lines 10-95 and 98-113
PL_STRUCTURE ==
    <<
      <<"a1", "Publishing", "detail">>,
      <<"a2", "Distribution", "detail">>,
      <<"a3", "RR", "detail">>,
      <<"a4", "MGG", "detail">>,
      <<"a5", "Autres B2C", "detail">>,
      <<"a6", "B2B", "detail">>,
      <<"Revenue", "Revenue", "total">>,
      <<"b1", "Publishing", "detail">>,
      <<"b2", "Distribution", "detail">>,
      <<"b3", "Celsius", "detail">>,
      <<"COGS", "COGS", "total">>,
      <<"c1", "Gross Margin", "margin">>,
      <<"d1", "Operating staff costs", "detail">>,
      <<"d2", "Operating activation", "detail">>,
      <<"d3", "Activation Liveops", "detail">>,
      <<"d4", "Activation Internal Projects", "detail">>,
      <<"d5", "CIJV", "detail">>,
      <<"Opex Staff", "Operating staff costs", "total">>,
      <<"e1", "Freelance", "detail">>,
      <<"e2", "Server", "detail">>,
      <<"e3", "Business provider fees", "detail">>,
      <<"e4", "China Office", "detail">>,
      <<"Outsourcing", "Outsourcing costs", "total">>,
      <<"f1", "Video / Image /Consulting  Providers", "detail">>,
      <<"f2", "Press & software subscriptions", "detail">>,
      <<"f3", "Miscellaneous", "detail">>,
      <<"Marketing", "Marketing & Other Opex", "total">>,
      <<"g1", "Contribution Margin", "margin">>,
      <<"h1", "Non-operating staff costs", "detail">>,
      <<"h2", "Non-operating activation", "detail">>,
      <<"Non-op Staff", "Non-operating staff costs", "total">>,
      <<"i1", "Furnitures", "detail">>,
      <<"i2", "Rents & other charges", "detail">>,
      <<"i3", "IFRS 16 activation", "detail">>,
      <<"i4", "Maintenance & repairs + miscellaneous", "detail">>,
      <<"i5", "Insurances", "detail">>,
      <<"i6", "Accounting & audit fees", "detail">>,
      <<"i7", "Legal fees", "detail">>,
      <<"i8", "Postal charges", "detail">>,
      <<"i9", "Internet & telecom", "detail">>,
      <<"i10", "Banking fees", "detail">>,
      <<"i11", "Pro. Asso. Subscription", "detail">>,
      <<"i12", "Other Fees", "detail">>,
      <<"Structure", "Structure costs", "total">>,
      <<"j1", "Internal events", "detail">>,
      <<"j2", "Exhibition & Events fees", "detail">>,
      <<"j3", "Accomodation & transport", "detail">>,
      <<"j4", "Reception", "detail">>,
      <<"Events", "Events, accomodation and transport", "total">>,
      <<"k1", "Non operating costs", "margin">>,
      <<"l1", "EBITDA", "margin">>,
      <<"m1", "D&A on fixed assets", "detail">>,
      <<"m2", "D&A - Milestones", "detail">>,
      <<"m3", "D&A on HR", "detail">>,
      <<"m4", "D&A on IFRS 16", "detail">>,
      <<"DA", "D&A", "total">>,
      <<"n1", "EBIT", "margin">>
    >>

TOTALS_MAP ==
    ("Revenue" :> <<"a1", "a2", "a3", "a4", "a5", "a6">>) @@
    ("COGS" :> <<"b1", "b2", "b3">>) @@
    ("Gross Margin" :> <<"Revenue", "COGS">>) @@
    ("Operating staff costs" :> <<"d1", "d2", "d3", "d4", "d5">>) @@
    ("Outsourcing costs" :> <<"e1", "e2", "e3", "e4">>) @@
    ("Marketing & Other Opex" :> <<"f1", "f2", "f3">>) @@
    ("Contribution Margin" :> <<"Revenue", "COGS", "Opex Staff", "Outsourcing", "Marketing">>) @@
    ("Non-operating staff costs" :> <<"h1", "h2">>) @@
    ("Structure costs" :> <<"i1", "i2", "i3", "i4", "i5", "i6", "i7", "i8", "i9", "i10", "i11", "i12">>) @@
    ("Events, accomodation and transport" :> <<"j1", "j2", "j3", "j4">>) @@
    ("Non operating costs" :> <<"Non-op Staff", "Structure", "Events">>) @@
    ("EBITDA" :> <<"g1", "k1">>) @@
    ("D&A" :> <<"m1", "m2", "m3", "m4">>) @@
    ("EBIT" :> <<"l1", "DA">>)

\* the module constants the builder reads
SourceStructure == [rows |-> PL_STRUCTURE, totals |-> TOTALS_MAP]

\* dict.get(key, default)
Get(f, key, default) == IF key \in DOMAIN f THEN f[key] ELSE default
\* d[key] = value
Put(f, key, value) == (key :> value) @@ f

\* line 126: dict(zip(mapping_pl_detail, montant_net)); a repeated key keeps
\* the amount of its last row
RECURSIVE zip_dict(_, _)
zip_dict(d, tr) ==
    IF tr = <<>> THEN d
    ELSE zip_dict(Put(d, Head(tr).mapping_pl_detail, Head(tr).montant_net),
                  Tail(tr))
data_of(tr) == zip_dict(<<>>, tr)

\* sum(...) over a sequence of amounts
RECURSIVE SeqSum(_, _, _)
SeqSum(terms, lo, hi) ==
    IF lo > hi THEN Zero
    ELSE IF lo = hi THEN terms[lo]
    ELSE RAdd(SeqSum(terms, lo, (lo + hi) \div 2),
              SeqSum(terms, (lo + hi) \div 2 + 1, hi))

\* the row types the walks handle (other rows are skipped)
RowTypes == {"detail", "total", "margin"}
Computed == {"total", "margin"}

\* the greatest element of a set of row numbers, 0 when it is empty
Latest(J) == IF J = {} THEN 0 ELSE CHOOSE j \in J : \A k \in J : k <= j

\* code_to_value.get(c) when the walk is at row i: the value recorded by the
\* latest earlier row whose code is c (0 stands for "no such row")
latest_code(st, i, c) ==
    Latest({j \in 1..(i - 1) : st.rows[j][1] = c /\ st.rows[j][3] \in RowTypes})

\* mutant: a detail row is looked up in the entity vector by its code
detail_key_ByCode(code, label) == code

\* line 135: data.get(label, 0.0) -- the key of a detail row is its label
detail_key(code, label) == label

\* lines 133-149: the value the walk of build_pl_entity computes at row i
\* (val of the loop body), the running code_to_value map being read through
\* latest_code
RECURSIVE entity_value(_, _, _)
entity_value(st, data, i) ==
    LET code == st.rows[i][1]
        label == st.rows[i][2]
        components == Get(st.totals, label, <<>>)
        term(c) == LET j == latest_code(st, i, c)
                   IN  IF j = 0 THEN Zero ELSE entity_value(st, data, j)
        terms == [k \in DOMAIN components |-> term(components[k])]
    IN  IF st.rows[i][3] = "detail"
        THEN Get(data, detail_key(code, label), Zero)
        ELSE SeqSum(terms, 1, Len(components))

\* the labels of the rows the walk handles, first occurrences only, in order
first_labels(st, types) ==
    LET first(i) == /\ st.rows[i][3] \in types
                    /\ \A j \in 1..(i - 1) :
                         st.rows[j][3] \in types => st.rows[j][2] # st.rows[i][2]
        idx == SelectSeq([i \in DOMAIN st.rows |-> i], first)
    IN  [k \in DOMAIN idx |-> st.rows[idx[k]][2]]

\* the last row of the given types that writes under label l (0 when none)
last_label(st, l, types) ==
    Latest({j \in DOMAIN st.rows : st.rows[j][2] = l /\ st.rows[j][3] \in types})

\* lines 128-151: pl[label] keeps the last value written under the label;
\* returns pd.Series(pl, name=entity)
build_pl_entity(tr, ent, st) ==
    LET data == data_of(tr)
        index == first_labels(st, RowTypes)
    IN  [name |-> ent,
         index |-> index,
         val |-> [l \in {index[k] : k \in DOMAIN index} |->
                    entity_value(st, data, last_label(st, l, RowTypes))]]

\* line 163/183: df = pd.concat(series, axis=1); df["Total"] = df.sum(axis=1)
row_sum(series, label) ==
    SeqSum([k \in DOMAIN series |-> Get(series[k].val, label, Zero)],
           1, Len(series))

\* the index of the concatenated frame: the labels of the series, in order
concat_index(series) ==
    LET all == Flatten([k \in DOMAIN series |-> series[k].index])
        first(i) == \A j \in 1..(i - 1) : all[j] # all[i]
        idx == SelectSeq([i \in DOMAIN all |-> i], first)
    IN  [k \in DOMAIN idx |-> all[idx[k]]]

\* lines 189-196: the value the walk over the Total column records for row i.
\* A detail row reads df.loc[label, "Total"] as it stands when the walk
\* reaches it: the value an earlier total/margin row wrote under that label,
\* else the summed column (0.0 when the label is not in the index); a
\* total/margin row sums code_to_value.get(c, 0.0) over its components.
RECURSIVE total_value(_, _, _)
total_value(st, total0, i) ==
    LET label == st.rows[i][2]
        written == Latest({j \in 1..(i - 1) :
                             st.rows[j][2] = label /\ st.rows[j][3] \in Computed})
        components == Get(st.totals, label, <<>>)
        term(c) == LET j == latest_code(st, i, c)
                   IN  IF j = 0 THEN Zero ELSE total_value(st, total0, j)
        terms == [k \in DOMAIN components |-> term(components[k])]
    IN  IF st.rows[i][3] = "detail"
        THEN IF written = 0 THEN Get(total0, label, Zero)
             ELSE total_value(st, total0, written)
        ELSE SeqSum(terms, 1, Len(components))

\* lines 158-198.  (The loop of lines 173-181 only writes total_series, which
\* nothing reads afterwards.)
build_consolidated_pl(entity_series, st) ==
    LET index0 == concat_index(entity_series)
        labels0 == {index0[k] : k \in DOMAIN index0}
        total0 == [l \in labels0 |-> row_sum(entity_series, l)]
        fresh(l) == l \notin labels0
        index == index0 \o SelectSeq(first_labels(st, Computed), fresh)
    IN  [index |-> index,
         columns |-> entity_series,
         Total |-> [l \in {index[k] : k \in DOMAIN index} |->
                      IF last_label(st, l, Computed) = 0 THEN total0[l]
                      ELSE total_value(st, total0, last_label(st, l, Computed))]]

\* lines 215-219
groups ==
    <<<<"P&L PID", <<"FR", "PID">>>>,
      <<"P&L Celsius", <<"CELSIUS", "VERTICAL">>>>,
      <<"P&L Consolidé", <<"FR", "PID", "CELSIUS", "VERTICAL">>>>>>

\* mutant: the labels are not deduplicated
ordered_labels_Raw(st) == [i \in DOMAIN st.rows |-> st.rows[i][2]]

\* lines 222-227: the labels of the structure, first occurrences only
ordered_labels(st) ==
    LET first(i) == \A j \in 1..(i - 1) : st.rows[j][2] # st.rows[i][2]
        idx == SelectSeq([i \in DOMAIN st.rows |-> i], first)
    IN  [k \in DOMAIN idx |-> st.rows[idx[k]][2]]

\* lines 231-246 for one sheet: None when no entity of the group is available
build_sheet(transformed_by_entity, entities, st) ==
    LET avail(e) == e \in DOMAIN transformed_by_entity
        present == SelectSeq(entities, avail)
        series == [k \in DOMAIN present |->
                     build_pl_entity(transformed_by_entity[present[k]],
                                     present[k], st)]
        pl == build_consolidated_pl(series, st)
        labels == ordered_labels(st)
    IN  IF series = <<>> THEN None
        ELSE [index |-> labels,
              Montant |-> [l \in {labels[k] : k \in DOMAIN labels} |->
                             Get(pl.Total, l, NaN)]]

\* build_full_pl: sheet name -> P&L, for the groups with an available entity
build_full_pl(transformed_by_entity, st) ==
    LET built == {g \in DOMAIN groups :
                    \E k \in DOMAIN groups[g][2] :
                        groups[g][2][k] \in DOMAIN transformed_by_entity}
    IN  [name \in {groups[g][1] : g \in built} |->
           LET g == CHOOSE h \in built : groups[h][1] = name
           IN  build_sheet(transformed_by_entity, groups[g][2], st)]

\* ---- specification: build_full_pl applied to bounded entity detail vectors
\* a row of a table returned by transform_entity
EntityRow(ent, detail, category, amount) ==
    [mapping_pl_detail |-> detail, mapping_pl_category |-> category,
     montant_net |-> Rat(amount), entite |-> ent]

\* rows an entity's table may hold, sorted as transform_entity returns them;
\* k scales the amounts so that the entities differ
EntityRows(ent, k) ==
    <<EntityRow(ent, "Non-operating activation", "Non-operating staff costs", -4 * k),
      EntityRow(ent, "Operating activation", "Operating staff costs", -5 * k),
      EntityRow(ent, "Operating staff costs", "Operating staff costs", 100 * k),
      EntityRow(ent, "Publishing", "Revenue", 200 * k),
      EntityRow(ent, "a1", "Revenue", 600 * k)>>

\* transformed_by_entity: FR and PID each absent or holding any sub-table,
\* CELSIUS absent or holding one table
TransformedChoices ==
    {LET fr == IF "FR" \in S THEN ("FR" :> f) ELSE <<>>
         pid == IF "PID" \in S THEN ("PID" :> p) ELSE <<>>
         cel == IF "CELSIUS" \in S
                THEN ("CELSIUS" :> Pick(EntityRows("CELSIUS", 7), {2, 4}))
                ELSE <<>>
     IN  fr @@ pid @@ cel :
     f \in SubTables(EntityRows("FR", 1)),
     p \in SubTables(EntityRows("PID", 3)),
     S \in SUBSET {"FR", "PID", "CELSIUS"}}

InitPL ==
    /\ pc = "transformed"
    /\ transformed \in TransformedChoices
    /\ structure = SourceStructure
    /\ entity = "FR"
    /\ fec = <<>> /\ mapping = <<>> /\ split_ca_cogs = <<>> /\ split_rh = <<>>
    /\ total_ms_group = None /\ net = <<>> /\ mapped = <<>> /\ result = <<>>
    /\ total_ms_by_group = <<>> /\ ms_handed = <<>> /\ fec_files = <<>>
    /\ fecs = <<>> /\ mappings = <<>>

BuildFullPLStep ==
    /\ pc = "transformed"
    /\ result' = build_full_pl(transformed, structure)
    /\ pc' = "built"
    /\ UNCHANGED <<run_state, inputs, net, mapped, transformed>>

NextPL == BuildFullPLStep
SpecPL == InitPL /\ [][NextPL]_vars

\* the entities of a sheet that have a transformed table
GroupOf(sheet) ==
    LET g == CHOOSE h \in DOMAIN groups : groups[h][1] = sheet
    IN  {groups[g][2][k] : k \in DOMAIN groups[g][2]} \cap DOMAIN transformed

\* the group's detail amounts summed per detail row: the amounts the entities'
\* vectors hold under the key build_pl_entity reads for that row
RECURSIVE SumOverEntities(_, _)
SumOverEntities(E, key) ==
    IF E = {} THEN Zero
    ELSE LET e == CHOOSE x \in E : TRUE
         IN  RAdd(Get(data_of(transformed[e]), key, Zero),
                  SumOverEntities(E \ {e}, key))
SummedVector(sheet) ==
    [l \in {structure.rows[i][2] : i \in DOMAIN structure.rows} |->
        SumOverEntities(GroupOf(sheet), l)]

\* one walk of the structure over the summed detail amounts: the value of row i
SingleWalk(sheet, i) == entity_value(structure, SummedVector(sheet), i)

ComputedRows ==
    {i \in DOMAIN structure.rows : structure.rows[i][3] \in {"total", "margin"}}

\* C3 (as claimed): for every group and every total/margin row, the Total
\* value of the consolidated P&L equals the value of that row in one walk of
\* the structure over the group's summed detail amounts (no detail component
\* counted twice, also when a total shares its label with one of its details).
C3_ConsolidationIsSingleWalk ==
    pc = "built" =>
        \A sheet \in DOMAIN result :
            \A i \in ComputedRows :
                (i = last_label(structure, structure.rows[i][2], Computed)) =>
                    result[sheet].Montant[structure.rows[i][2]]
                        = SingleWalk(sheet, i)

(***************************************************************************)
(* 8. transform_entity followed by build_full_pl                           *)
(***************************************************************************)
\* ---- specification: the entities' ledgers are transformed one after the
\* ---- other, then the three P&L are built from the transformed tables
EntityOrder == <<"FR", "PID", "CELSIUS", "VERTICAL">>

\* a ledger line of the target month
Line(compte, debit, credit) ==
    [JournalCode |-> "VT", CompteNum |-> compte, EcritureDate |-> Period,
     DC |-> <<debit, credit>>]

MappingRow(compte, detail, category) ==
    [numero_compte |-> compte, mapping_pl_detail |-> detail,
     mapping_pl_category |-> category]

\* the mapping table of every entity: 706 is revenue to allocate, 601 cost of
\* sales to allocate
PipelineMapping ==
    <<MappingRow("601", "COGS", "COGS"), MappingRow("706", "SALES", "Revenue")>>

\* the ledgers of FR: account 706 netting to 1000 or to 500, alone or with 601
FrLedgers ==
    {<<Line("706", 0, 1000)>>,
     <<Line("706", 0, 500)>>,
     <<Line("601", 200, 0), Line("706", 100, 600)>>}
PidLedger == <<Line("706", 0, 300)>>

ProportionRow(ent, pl_type, bu, montant) ==
    [entite |-> ent, type |-> pl_type, BU |-> bu, Montant |-> Rat(montant)]

PipelineSplitRows ==
    <<ProportionRow("FR", "Revenue", "Publishing", 60),
      ProportionRow("FR", "Revenue", "Distribution", 40),
      ProportionRow("FR", "COGS", "Publishing", 100),
      ProportionRow("PID", "Revenue", "Publishing", 100)>>

InitPipeline ==
    /\ pc = "loaded"
    /\ \E l \in FrLedgers, withPid \in BOOLEAN :
          fecs = IF withPid THEN ("FR" :> l) @@ ("PID" :> PidLedger)
                 ELSE ("FR" :> l)
    /\ mappings = [e \in DOMAIN fecs |-> PipelineMapping]
    /\ split_ca_cogs \in SubTables(PipelineSplitRows)
    /\ split_rh = <<>>
    /\ total_ms_group = None
    /\ structure = SourceStructure
    /\ entity = "FR"
    /\ fec = <<>> /\ mapping = <<>>
    /\ net = <<>> /\ mapped = <<>> /\ result = <<>> /\ transformed = <<>>
    /\ total_ms_by_group = <<>> /\ ms_handed = <<>> /\ fec_files = <<>>

\* the entities still to transform, in the order of the ledgers
Pending ==
    LET todo(e) == e \in DOMAIN fecs /\ e \notin DOMAIN transformed
    IN  SelectSeq(EntityOrder, todo)

TransformEntityStep ==
    /\ pc = "loaded"
    /\ Pending # <<>>
    /\ LET e == Head(Pending)
       IN  /\ transformed' =
                 transformed @@
                 (e :> transform_entity(fecs[e], mappings[e], split_ca_cogs,
                                        split_rh, e, Period, total_ms_group))
           /\ entity' = e
           /\ pc' = IF Len(Pending) = 1 THEN "transformed" ELSE "loaded"
    /\ UNCHANGED <<run_state, fec, mapping, split_ca_cogs, split_rh, total_ms_group, fecs,
                   mappings, structure, net, mapped, result>>

NextPipeline == TransformEntityStep \/ BuildFullPLStep
SpecPipeline == InitPipeline /\ [][NextPipeline]_vars

\* the amount of the row of a transformed table under a detail key (NaN when
\* the table has no such row)
AmountOf(tr, detail) ==
    LET has(r) == r.mapping_pl_detail = detail
    IN  IF SelectSeq(tr, has) = <<>> THEN NaN
        ELSE ColSum(SelectSeq(tr, has), "montant_net")

\* the Revenue proportion rows of an entity
RevenueProportions(e) ==
    LET mine(r) == r.entite = e /\ r.type = "Revenue"
    IN  SelectSeq(split_ca_cogs, mine)

\* the scenario of C2: FR alone, its only account 706 netting to 1000, Revenue
\* proportions Publishing 60 and Distribution 40
C2_Scenario ==
    /\ DOMAIN fecs = {"FR"}
    /\ fecs["FR"] = <<Line("706", 0, 1000)>>
    /\ RevenueProportions("FR") = Pick(PipelineSplitRows, {1, 2})

\* the part of C2 about transform_entity, which the code satisfies
C2_TransformPart ==
    (C2_Scenario /\ "FR" \in DOMAIN transformed) =>
        /\ AmountOf(transformed["FR"], "a1") = Rat(600)
        /\ AmountOf(transformed["FR"], "a2") = Rat(400)

\* C2 (as claimed): in the scenario, transform_entity yields a1 = 600 and
\* a2 = 400, and the P&L built from it reports Revenue = 1000 with
\* Publishing = 600 and Distribution = 400.
C2_EndToEnd ==
    (C2_Scenario /\ pc = "built") =>
        /\ AmountOf(transformed["FR"], "a1") = Rat(600)
        /\ AmountOf(transformed["FR"], "a2") = Rat(400)
        /\ \A sheet \in {"P&L PID", "P&L Consolidé"} :
             /\ sheet \in DOMAIN result
             /\ result[sheet].Montant["Revenue"] = Rat(1000)
             /\ result[sheet].Montant["Publishing"] = Rat(600)
             /\ result[sheet].Montant["Distribution"] = Rat(400)

\* an entity whose revenue bucket is nonzero and that has no Revenue proportion
MissingAllocation(e) ==
    /\ e \in DOMAIN fecs
    /\ bucket_total(apply_mapping(compute_net_by_account(fecs[e], Period),
                                  mappings[e]), "SALES") # Zero
    /\ RevenueProportions(e) = <<>>

\* transformed_by_entity with the revenue bucket of e taken out of its table
WithoutBucket(e) ==
    [x \in DOMAIN transformed |->
       IF x = e THEN drop_bucket(transformed[x], "SALES") ELSE transformed[x]]

SheetsOf(e) ==
    {groups[g][1] : g \in {h \in DOMAIN groups :
                             \E k \in DOMAIN groups[h][2] : groups[h][2][k] = e}}

WithoutRow(st, i) ==
    [st EXCEPT !.rows = SubSeq(@, 1, i - 1) \o SubSeq(@, i + 1, Len(@))]
WithComponent(st, label, c) ==
    [st EXCEPT !.totals = (label :> Append(st.totals[label], c)) @@ @]

\* the rows of code a1, d2 and h2 of the shipped structure
DroppedRows == {1, 14, 30}

StructureChoices ==
    {SourceStructure, WithComponent(SourceStructure, "Revenue", "a7")}
        \cup {WithoutRow(SourceStructure, i) : i \in DroppedRows}

InitStructure ==
    /\ pc = "transformed"
    /\ structure \in StructureChoices
    /\ \E t \in SubTables(EntityRows("FR", 1)) : transformed = ("FR" :> t)
    /\ entity = "FR"
    /\ fec = <<>> /\ mapping = <<>> /\ split_ca_cogs = <<>> /\ split_rh = <<>>
    /\ total_ms_group = None /\ net = <<>> /\ mapped = <<>> /\ result = <<>>
    /\ total_ms_by_group = <<>> /\ ms_handed = <<>> /\ fec_files = <<>>
    /\ fecs = <<>> /\ mappings = <<>>

NextStructure == BuildFullPLStep
SpecStructure == InitStructure /\ [][NextStructure]_vars

\* the (row, component) pairs of a structure whose component code is declared
\* by no earlier row
Unresolvable(st) ==
    {ic \in (DOMAIN st.rows) \X {"a1", "a7", "d2", "h2"} :
        /\ st.rows[ic[1]][3] \in Computed
        /\ \E k \in DOMAIN Get(st.totals, st.rows[ic[1]][2], <<>>) :
              Get(st.totals, st.rows[ic[1]][2], <<>>)[k] = ic[2]
        /\ latest_code(st, ic[1], ic[2]) = 0}

\* transformed_by_entity without the rows of one detail key
WithoutBucketOf(detail) ==
    [x \in DOMAIN transformed |-> drop_bucket(transformed[x], detail)]

C9_SilentZero ==
    (pc = "built" /\ structure = WithoutRow(SourceStructure, 14)) =>
        result["P&L PID"].Montant["Operating staff costs"]
            = build_full_pl(WithoutBucketOf("Operating activation"),
                            SourceStructure)["P&L PID"]
                 .Montant["Operating staff costs"]

(***************************************************************************)
(* 10. run(period)  (src/main.py:15-123, src/src/loaders.py:50-59)         *)
(***************************************************************************)
\* loaders.py:5
ENTITIES == <<"FR", "PID", "CELSIUS", "VERTICAL">>

\* mutant: the first missing ledger ends the loading
load_all_fec_StopAtMissing(files) ==
    LET found(e) == e \in DOMAIN files
        missing == {k \in DOMAIN ENTITIES : ~found(ENTITIES[k])}
        upto == IF missing = {} THEN Len(ENTITIES)
                ELSE (CHOOSE k \in missing : \A j \in missing : k <= j) - 1
    IN  [e \in {ENTITIES[k] : k \in 1..upto} |-> files[e]]

\* loaders.py:50-59: an entity whose file is missing (FileNotFoundError) is
\* left out of the dict
load_all_fec(files) ==
    [e \in {ENTITIES[k] : k \in DOMAIN ENTITIES} \cap DOMAIN files |-> files[e]]

\* main.py:73
groups_ms ==
    <<<<"PID+FR", <<"FR", "PID">>>>,
      <<"CELSIUS+VERTICAL", <<"CELSIUS", "VERTICAL">>>>>>

\* main.py:80-82: the mapped payroll-to-allocate amount of one entity
mapped_payroll(ledger, map, p) ==
    bucket_total(apply_mapping(compute_net_by_account(ledger, p), map), ms_label)

\* mutant: only the first member of the group is counted
group_total_FirstMember(entities, fs, ms, p) ==
    IF entities[1] \in DOMAIN fs /\ entities[1] \in DOMAIN ms
    THEN mapped_payroll(fs[entities[1]], ms[entities[1]], p)
    ELSE Zero

\* main.py:77-83: the inner loop over the members of one group
group_total(entities, fs, ms, p) ==
    SeqSum([k \in DOMAIN entities |->
              IF entities[k] \in DOMAIN fs /\ entities[k] \in DOMAIN ms
              THEN mapped_payroll(fs[entities[k]], ms[entities[k]], p)
              ELSE Zero],
           1, Len(entities))

\* main.py:87-92 and 109: entity_to_ms_group.get(entity)
entity_to_ms_group(totals, e) ==
    CASE e \in {"FR", "PID"} -> totals["PID+FR"]
      [] e \in {"CELSIUS", "VERTICAL"} -> totals["CELSIUS+VERTICAL"]
      [] OTHER -> None

\* a function signature: the number of parameters without a default and the
\* number of parameters in all; a call with n positional arguments binds only
\* when required <= n <= accepted (TypeError otherwise)
binds(signature, n) == signature.required <= n /\ n <= signature.accepted
\* pl_builder.py:205: def build_full_pl(transformed_by_entity)
build_full_pl_signature == [required |-> 1, accepted |-> 1]
\* output.py:130-136: def export_to_excel(pl_dict, period, pl_structures,
\*                                         controls_df, output_dir="output")
export_to_excel_signature == [required |-> 4, accepted |-> 5]
\* main.py:114: build_full_pl(transformed, pl_structures)
build_call == [arguments |-> 2]
\* main.py:118: export_to_excel(pl_dict, period, pl_structures)
export_call == [arguments |-> 3]

\* main.py:112-123: the outcome of the end of run
run_report(tr, st) ==
    IF ~binds(build_full_pl_signature, build_call.arguments)
    THEN [raised |-> "TypeError", at |-> "build_full_pl"]
    ELSE IF ~binds(export_to_excel_signature, export_call.arguments)
    THEN [raised |-> "TypeError", at |-> "export_to_excel"]
    ELSE [raised |-> "", at |-> "", report |-> build_full_pl(tr, st)]

\* ---- specification: run(period) over bounded sets of ledger files,
\* ---- mapping sheets and payroll proportions
\* the loop variable "entity" before the loop of line 97 starts
NoEntity == ""

RunLedgers(k) ==
    ("FR" :> <<Line("641", 1000 * k, 0), Line("706", 0, 500)>>)
    @@ ("PID" :> <<Line("641", 600, 0)>>)
    @@ ("CELSIUS" :> <<Line("641", 200, 0), Line("641", 0, 30)>>)
    @@ ("VERTICAL" :> <<Line("706", 0, 50)>>)

RunMapping ==
    <<MappingRow("641", ms_label, "Operating staff costs"),
      MappingRow("706", "SALES", "Revenue")>>

RhRow(group, type, montant) ==
    [entite |-> group, type |-> type, montant |-> Rat(montant)]
RunSplitRh ==
    <<RhRow("PID+FR", "Operating staff costs", 300),
      RhRow("PID+FR", "Operating activation", -100),
      RhRow("CELSIUS+VERTICAL", "Non-operating staff costs", 50)>>

Restrict(f, S) == [x \in S \cap DOMAIN f |-> f[x]]

InitRun ==
    /\ pc = "start"
    /\ \E k \in {1, 2}, S \in SUBSET {"FR", "PID", "CELSIUS", "VERTICAL"} :
          fec_files = Restrict(RunLedgers(k), S)
    /\ \E S \in SUBSET {"FR", "PID", "CELSIUS", "VERTICAL"} :
          mappings = [e \in S |-> RunMapping]
    /\ split_ca_cogs = Pick(PipelineSplitRows, {1, 2})
    /\ split_rh \in {<<>>, RunSplitRh}
    /\ structure = SourceStructure
    /\ entity = NoEntity
    /\ fecs = <<>> /\ transformed = <<>> /\ result = <<>>
    /\ total_ms_by_group = <<>> /\ ms_handed = <<>>
    /\ total_ms_group = None
    /\ fec = <<>> /\ mapping = <<>> /\ net = <<>> /\ mapped = <<>>

\* main.py:28: fecs = load_all_fec(period)
LoadStep ==
    /\ pc = "start"
    /\ fecs' = load_all_fec(fec_files)
    /\ pc' = "loaded"
    /\ UNCHANGED <<fec, mapping, split_ca_cogs, split_rh, entity, total_ms_group,
                   mappings, structure, net, mapped, result, transformed,
                   run_state>>

\* main.py:65-67: if not fecs: return
CheckFecsStep ==
    /\ pc = "loaded"
    /\ pc' = IF DOMAIN fecs = {} THEN "returned" ELSE "ms"
    /\ UNCHANGED <<inputs, net, mapped, result, transformed, run_state>>

\* main.py:76-84: one turn of the loop over groups_ms
MsGroupStep ==
    /\ pc = "ms"
    /\ LET g == Cardinality(DOMAIN total_ms_by_group) + 1
       IN  /\ total_ms_by_group' =
                 total_ms_by_group @@
                 (groups_ms[g][1] :>
                    group_total(groups_ms[g][2], fecs, mappings, Period))
           /\ pc' = IF g = Len(groups_ms) THEN "transform" ELSE "ms"
    /\ UNCHANGED <<inputs, net, mapped, result, transformed, ms_handed, fec_files>>

\* the entities the loop of line 97 has still to visit: fecs.items() in
\* insertion order, after the current value of the loop variable
Position(e) == CHOOSE k \in DOMAIN ENTITIES : ENTITIES[k] = e
ToVisit ==
    LET later(e) == /\ e \in DOMAIN fecs
                    /\ entity = NoEntity \/ Position(e) > Position(entity)
    IN  SelectSeq(ENTITIES, later)

\* main.py:98-100: if entity not in mappings: continue
SkipEntityStep ==
    /\ pc = "transform"
    /\ ToVisit # <<>>
    /\ Head(ToVisit) \notin DOMAIN mappings
    /\ entity' = Head(ToVisit)
    /\ UNCHANGED <<pc, fec, mapping, split_ca_cogs, split_rh, total_ms_group,
                   fecs, mappings, structure, net, mapped, result, transformed,
                   run_state>>

\* main.py:101-110: transformed[entity] = transform_entity(...)
RunTransformStep ==
    /\ pc = "transform"
    /\ ToVisit # <<>>
    /\ Head(ToVisit) \in DOMAIN mappings
    /\ LET e == Head(ToVisit)
           ms == entity_to_ms_group(total_ms_by_group, e)
       IN  /\ entity' = e
           /\ ms_handed' = ms_handed @@ (e :> ms)
           /\ transformed' =
                 transformed @@
                 (e :> transform_entity(fecs[e], mappings[e], split_ca_cogs,
                                        split_rh, e, Period, ms))
    /\ UNCHANGED <<pc, fec, mapping, split_ca_cogs, split_rh, total_ms_group,
                   fecs, mappings, structure, net, mapped, result,
                   total_ms_by_group, fec_files>>

\* main.py:112-123: build_full_pl, export_to_excel, "Terminé"
FinishStep ==
    /\ pc = "transform"
    /\ ToVisit = <<>>
    /\ result' = run_report(transformed, structure)
    /\ pc' = IF run_report(transformed, structure).raised = "" THEN "finished"
             ELSE "raised"
    /\ UNCHANGED <<inputs, net, mapped, transformed, run_state>>

NextRun ==
    \/ LoadStep
    \/ CheckFecsStep
    \/ MsGroupStep
    \/ SkipEntityStep
    \/ RunTransformStep
    \/ FinishStep
SpecRun == InitRun /\ [][NextRun]_vars

\* the members of a payroll group that have both a ledger and a mapping
MembersOf(e) ==
    IF e \in {"FR", "PID"} THEN {"FR", "PID"} ELSE {"CELSIUS", "VERTICAL"}
Available == DOMAIN fecs \cap DOMAIN mappings
RECURSIVE PayrollOver(_)
PayrollOver(E) ==
    IF E = {} THEN Zero
    ELSE LET e == CHOOSE x \in E : TRUE
         IN  RAdd(bucket_total(apply_mapping(
                      compute_net_by_account(fecs[e], Period), mappings[e]),
                      ms_label),
                  PayrollOver(E \ {e}))

\* C11: the total handed to transform_entity (and so to split_staff_costs) for
\* an entity is the sum of the mapped payroll-to-allocate amounts of the
\* members of its payroll group that have a ledger and a mapping; both group
\* totals are computed before the first entity is transformed and are not
\* changed afterwards; two members of a group receive the same total.
C11_TwoPhaseBarrier ==
    /\ \A e \in DOMAIN ms_handed :
          ms_handed[e] = PayrollOver(MembersOf(e) \cap Available)
    /\ \A e1, e2 \in DOMAIN ms_handed :
          MembersOf(e1) = MembersOf(e2) => ms_handed[e1] = ms_handed[e2]
    /\ (DOMAIN transformed # {} \/ pc \in {"transform", "raised", "finished"}) =>
          /\ DOMAIN total_ms_by_group = {"PID+FR", "CELSIUS+VERTICAL"}
          /\ total_ms_by_group["PID+FR"]
                = PayrollOver({"FR", "PID"} \cap Available)
          /\ total_ms_by_group["CELSIUS+VERTICAL"]
                = PayrollOver({"CELSIUS", "VERTICAL"} \cap Available)

\* both members of PID+FR transformed with the same nonzero group total, to
\* which each member contributes
C11_Witness ==
    /\ DOMAIN ms_handed = {"FR", "PID"}
    /\ ms_handed["FR"] = Rat(1600)
    /\ ms_handed["PID"] = Rat(1600)
    /\ AmountOf(transformed["PID"], "d1") = Rat(600)

\* the loop of main.py:97-110 has visited every loaded ledger
LoopEnded ==
    \/ pc = "transform" /\ ToVisit = <<>>
    \/ pc \in {"raised", "finished"}

\* C12: an entity without a ledger file is left out and the others are
\* loaded; only entities with a ledger and a mapping are transformed, and at
\* the end of the loop all of them are; when no entity has a ledger the run
\* returns with nothing computed, transformed or built.
C12_EntityAvailability ==
    /\ pc # "start" => DOMAIN fecs = DOMAIN fec_files
    /\ DOMAIN transformed \subseteq DOMAIN fec_files \cap DOMAIN mappings
    /\ LoopEnded => DOMAIN transformed = DOMAIN fec_files \cap DOMAIN mappings
    /\ pc = "returned" <=> (pc \notin {"start", "loaded"} /\ DOMAIN fec_files = {})
    /\ pc = "returned" =>
          /\ transformed = <<>> /\ result = <<>>
          /\ total_ms_by_group = <<>> /\ ms_handed = <<>>

\* PID has no ledger, CELSIUS a ledger but no mapping: FR alone is transformed
C12_Witness ==
    /\ LoopEnded
    /\ DOMAIN fec_files = {"FR", "CELSIUS"}
    /\ DOMAIN mappings = {"FR", "PID"}
    /\ DOMAIN transformed = {"FR"}

\* no ledger at all: the run has returned
C12_WitnessNoLedger == pc = "returned" /\ DOMAIN fec_files = {}

\* the run has ended: returned at line 67, raised, or reached line 123
RunEnded == pc \in {"returned", "raised", "finished"}

\* C13 (as claimed): a run in which some entity has both a ledger and a mapping
\* ends with build_full_pl and export_to_excel completed and a report
\* produced (stated on the states in which the run has ended; no step leaves
\* such a state).
C13_RunEndsWithReport ==
    (RunEnded /\ Available # {}) => (pc = "finished" /\ result.raised = "")

\* what the code does instead: every run that reaches the end of the
\* transformations raises TypeError at the call of build_full_pl
C13_RaisesAtBuild ==
    /\ pc # "finished"
    /\ pc = "raised" => result = [raised |-> "TypeError", at |-> "build_full_pl"]

(***************************************************************************)
(* 11. the final aggregation of transform_entity                           *)
(***************************************************************************)
\* ---- specification: transform_entity applied to bounded ledgers and
\* ---- mappings whose rows carry a detail and a category
AggLedgerLines ==
    <<Line("601", 80, 10), Line("641", 100, 0), Line("706", 0, 500)>>
AggMapRows ==
    [numero_compte : {"601", "641"},
     mapping_pl_detail : {"Furnitures", "COGS"},
     mapping_pl_category : {"Structure costs", "Ops", NaN}]

InitAggregate ==
    /\ pc = "loaded"
    /\ \E l \in SubTables(AggLedgerLines) : fecs = ("FR" :> l)
    /\ \E m \in SeqUpTo(AggMapRows, MaxMapRows) : mappings = ("FR" :> m)
    /\ split_ca_cogs = Pick(PipelineSplitRows, {3})
    /\ split_rh = <<>>
    /\ total_ms_group = None
    /\ structure = SourceStructure
    /\ entity = "FR"
    /\ fec = <<>> /\ mapping = <<>>
    /\ net = <<>> /\ mapped = <<>> /\ result = <<>> /\ transformed = <<>>
    /\ total_ms_by_group = <<>> /\ ms_handed = <<>> /\ fec_files = <<>>

NextAggregate == TransformEntityStep
SpecAggregate == InitAggregate /\ [][NextAggregate]_vars

\* the rows the pipeline produced for an entity, before the final aggregation
ProducedRows(e) ==
    apply_ifrs16(
        split_staff_costs(
            split_revenue_cogs_by_bu(
                apply_mapping(compute_net_by_account(fecs[e], Period),
                              mappings[e]),
                split_ca_cogs, e),
            split_rh, e, total_ms_group))

RowsUnder(tr, detail) ==
    LET has(r) == r.mapping_pl_detail = detail IN SelectSeq(tr, has)

\* C14 (as claimed): in the table returned by transform_entity no code is
\* carried by more than one row, the row of a code holds the sum of all the
\* amounts the pipeline produced under that code, and every row is tagged with
\* the entity.
C14_OneRowPerCode ==
    \A e \in DOMAIN transformed :
        /\ \A i, j \in DOMAIN transformed[e] :
              transformed[e][i].mapping_pl_detail
                  = transformed[e][j].mapping_pl_detail => i = j
        /\ \A k \in DOMAIN ProducedRows(e) :
              LET code == ProducedRows(e)[k].mapping_pl_detail
              IN  /\ Len(RowsUnder(transformed[e], code)) = 1
                  /\ RowsUnder(transformed[e], code)[1].montant_net
                        = ColSum(RowsUnder(ProducedRows(e), code), "montant_net")
        /\ \A i \in DOMAIN transformed[e] : transformed[e][i].entite = e

\* what the code guarantees: one row per (code, category) pair, tagged with
\* the entity
C14_OneRowPerPair ==
    \A e \in DOMAIN transformed :
        /\ \A i, j \in DOMAIN transformed[e] :
              (/\ transformed[e][i].mapping_pl_detail
                     = transformed[e][j].mapping_pl_detail
               /\ transformed[e][i].mapping_pl_category
                     = transformed[e][j].mapping_pl_category) => i = j
        /\ \A i \in DOMAIN transformed[e] : transformed[e][i].entite = e

(***************************************************************************)
(* 12. properties of the per-entity pass and of the sheets                 *)
(***************************************************************************)
\* the per-entity P&L that build_full_pl computes for an entity
EntitySeries(e) == build_pl_entity(transformed[e], e, structure)

\* The code holds no list of charge codes.  The detail rows below the Revenue
\* block of the structure (cost of sales, staff, outsourcing, structure costs,
\* D&A ...) are taken as the charge rows; the property below fails for every
\* choice that contains the row b1.
ChargeRows ==
    {i \in DOMAIN structure.rows :
        /\ structure.rows[i][3] = "detail"
        /\ \E j \in 1..(i - 1) : structure.rows[j][1] = "Revenue"}

\* -abs(v)
NegAbs(v) == <<-Abs(v[1]), v[2]>>

\* C15 (as claimed): in the per-entity pass the value recorded for a charge
\* row is -abs(v), v being the amount found in the entity's detail vector, so
\* it is never positive.
C15_ChargeSignGuardrail ==
    pc = "built" =>
        \A e \in DOMAIN transformed : \A i \in ChargeRows :
            LET code == structure.rows[i][1]
                label == structure.rows[i][2]
                v == Get(data_of(transformed[e]), detail_key(code, label), Zero)
            IN  last_label(structure, label, RowTypes) = i =>
                    /\ EntitySeries(e).val[label] = NegAbs(v)
                    /\ ~RPos(EntitySeries(e).val[label])

\* what the code does instead: the amount found is recorded as it is
C15_RecordedAsFound ==
    pc = "built" =>
        \A e \in DOMAIN transformed : \A i \in ChargeRows :
            LET code == structure.rows[i][1]
                label == structure.rows[i][2]
            IN  last_label(structure, label, RowTypes) = i =>
                    EntitySeries(e).val[label]
                        = Get(data_of(transformed[e]), detail_key(code, label), Zero)

\* the first row of the structure that carries a label
FirstRow(l) ==
    CHOOSE i \in DOMAIN structure.rows :
        /\ structure.rows[i][2] = l
        /\ \A j \in 1..(i - 1) : structure.rows[j][2] # l
StructureLabels == {structure.rows[i][2] : i \in DOMAIN structure.rows}

\* C16: every sheet built has exactly one row per distinct label of the
\* structure, in the order of the labels' first occurrence, and the single
\* column Montant (frame = index + Montant; no per-entity column).
C16_OutputShape ==
    pc = "built" =>
        \A sheet \in DOMAIN result :
            LET pl == result[sheet]
            IN  /\ DOMAIN pl = {"index", "Montant"}
                /\ {pl.index[k] : k \in DOMAIN pl.index} = StructureLabels
                /\ Len(pl.index) = Cardinality(StructureLabels)
                /\ \A a, b \in DOMAIN pl.index :
                      a < b => FirstRow(pl.index[a]) < FirstRow(pl.index[b])
                /\ DOMAIN pl.Montant = StructureLabels

\* a sheet built from two entities' columns
C16_Witness ==
    /\ pc = "built"
    /\ {"FR", "PID"} \subseteq DOMAIN transformed
    /\ transformed["FR"] # <<>> /\ transformed["PID"] # <<>>
    /\ "P&L PID" \in DOMAIN result
    /\ Len(result["P&L PID"].index) = 53

\* the amount an entity's table holds under a key, 0 when it holds none
AmountOrZero(tr, key) ==
    IF RowsUnder(tr, key) = <<>> THEN Zero
    ELSE RowsUnder(tr, key)[Len(RowsUnder(tr, key))].montant_net

DetailCodes ==
    {structure.rows[i][1] : i \in {j \in DOMAIN structure.rows :
                                     structure.rows[j][3] = "detail"}}

\* C17 (as claimed): the per-entity pass records for a detail row the amount
\* the entity's table holds under the row's code (0 when none), and for a
\* total whose components are detail codes the sum of these amounts; so an
\* amount emitted under a detail code appears on its P&L line.
C17_DetailByCode ==
    \A e \in DOMAIN transformed : \A i \in DOMAIN structure.rows :
        LET code == structure.rows[i][1]
            label == structure.rows[i][2]
            components == Get(structure.totals, label, <<>>)
        IN  last_label(structure, label, RowTypes) = i =>
              /\ structure.rows[i][3] = "detail" =>
                    EntitySeries(e).val[label] = AmountOrZero(transformed[e], code)
              /\ (/\ structure.rows[i][3] \in Computed
                  /\ \A k \in DOMAIN components : components[k] \in DetailCodes) =>
                    EntitySeries(e).val[label]
                        = SeqSum([k \in DOMAIN components |->
                                    AmountOrZero(transformed[e], components[k])],
                                 1, Len(components))

\* what the code does instead: a detail row records the amount held under
\* the row's label
C17_DetailByLabel ==
    \A e \in DOMAIN transformed : \A i \in DOMAIN structure.rows :
        (/\ last_label(structure, structure.rows[i][2], RowTypes) = i
         /\ structure.rows[i][3] = "detail") =>
            EntitySeries(e).val[structure.rows[i][2]]
                = AmountOrZero(transformed[e], structure.rows[i][2])

(***************************************************************************)
(* 13. amounts and bucket removal of the allocators                        *)
(***************************************************************************)
\* the proportion rows of the entity's payroll group, by family
RhOfGroup ==
    LET mine(r) == r.entite = rh_group(entity) IN SelectSeq(split_rh, mine)
RhStaff == LET st(r) == r.type \in staff_lines IN SelectSeq(RhOfGroup, st)
RhActivation ==
    LET act(r) == r.type \in activation_lines IN SelectSeq(RhOfGroup, act)
TotalMsEntity == bucket_total(mapped, ms_label)
GroupBase == IF total_ms_group # None THEN total_ms_group ELSE TotalMsEntity
StaffCodes == {"d1", "h1"}

\* C18 (as claimed): when rows are generated, the k-th staff row carries
\* (row amount / staff-type sum) * total_ms_entity whenever the staff-type sum
\* is nonzero, so that the staff rows sum to total_ms_entity, and 0 when that
\* sum is zero; the k-th activation row carries row amount * ratio, with
\* ratio = total_ms_entity / group total (taken as 0 when the group total is
\* not positive).
C18_AllocationAmounts ==
    (pc = "staff" /\ GeneratedRH # <<>>) =>
        LET staff == GeneratedWithCode(StaffCodes)
            act == GeneratedWithCode(ActivationCodes)
            staff_sum == ColSum(RhStaff, "montant")
            ratio == IF RPos(GroupBase) THEN RDiv(TotalMsEntity, GroupBase)
                     ELSE Zero
        IN  /\ Len(staff) = Len(RhStaff)
            /\ \A k \in DOMAIN staff :
                  staff[k].montant_net =
                      IF staff_sum # Zero
                      THEN RMul(RDiv(RhStaff[k].montant, staff_sum), TotalMsEntity)
                      ELSE Zero
            /\ staff_sum # Zero =>
                  ColSum(staff, "montant_net") = TotalMsEntity
            /\ Len(act) = Len(RhActivation)
            /\ \A k \in DOMAIN act :
                  act[k].montant_net = RMul(RhActivation[k].montant, ratio)

\* what the code guarantees: the claimed amounts when the staff-type sum is
\* positive, and staff amounts all 0 when it is zero or negative
C18_PositiveStaffSum ==
    (pc = "staff" /\ GeneratedRH # <<>>) =>
        LET staff == GeneratedWithCode(StaffCodes)
            act == GeneratedWithCode(ActivationCodes)
            staff_sum == ColSum(RhStaff, "montant")
            ratio == IF RPos(GroupBase) THEN RDiv(TotalMsEntity, GroupBase)
                     ELSE Zero
        IN  /\ Len(staff) = Len(RhStaff)
            /\ \A k \in DOMAIN staff :
                  staff[k].montant_net =
                      IF RPos(staff_sum)
                      THEN RMul(RDiv(RhStaff[k].montant, staff_sum), TotalMsEntity)
                      ELSE Zero
            /\ RPos(staff_sum) => ColSum(staff, "montant_net") = TotalMsEntity
            /\ Len(act) = Len(RhActivation)
            /\ \A k \in DOMAIN act :
                  act[k].montant_net = RMul(RhActivation[k].montant, ratio)

\* the output holds no bucket row and holds the generated rows after the other
\* rows of the input
PayrollReplaced ==
    /\ RowsUnder(result, ms_label) = <<>>
    /\ Len(GeneratedRH) = Len(RhStaff) + Len(RhActivation) + 1
    /\ result = drop_bucket(mapped, ms_label) \o GeneratedRH

\* C19 (as claimed): split_staff_costs returns its input unchanged only when
\* the proportion table of the entity's group is empty; otherwise the output
\* holds no row under the payroll bucket and holds the generated rows, also
\* when the group total is 0 or negative and when the proportions sum to 0.
C19_PayrollBucketRemoved ==
    pc = "staff" =>
        IF RhOfGroup = <<>> THEN result = mapped ELSE PayrollReplaced

\* what the code does instead: the input is also returned unchanged when the
\* base (group total, or entity total when none is given) is 0 and when the
\* proportion amounts sum to 0
C19_ReturnedUnchanged ==
    pc = "staff" =>
        IF \/ RhOfGroup = <<>>
           \/ GroupBase = Zero
           \/ ColSum(RhOfGroup, "montant") = Zero
        THEN result = mapped
        ELSE PayrollReplaced

\* the rows of the output that come from the input
KeptRows == LET old(r) == ~isna(r.numero_compte) IN SelectSeq(result, old)
Buckets == {<<"Revenue", "SALES">>, <<"COGS", "COGS">>}

\* C20 (as claimed): after split_revenue_cogs_by_bu the output holds no row
\* under either bucket code, whether the bucket total is zero, no proportion
\* row exists, the proportions sum to zero (no replacement row in these three
\* cases) or the allocation succeeds (replacement rows appended); the rows
\* under the other codes are unchanged.
C20_BucketsRemoved ==
    pc = "split_bu" =>
        /\ \A b \in Buckets :
              /\ RowsUnder(result, b[2]) = <<>>
              /\ Len(GeneratedBU(b[1])) =
                    IF Allocatable(b[1], b[2])
                    THEN Cardinality(ProportionRows(b[1])) ELSE 0
        /\ KeptRows = drop_bucket(drop_bucket(mapped, "SALES"), "COGS")

\* what the code does instead: a bucket is removed only when it is allocated;
\* in the three other cases its rows stay in the output
C20_RemovedOnlyWhenAllocated ==
    pc = "split_bu" =>
        /\ \A b \in Buckets :
              /\ RowsUnder(result, b[2]) =
                    IF Allocatable(b[1], b[2]) THEN <<>>
                    ELSE RowsUnder(mapped, b[2])
              /\ Len(GeneratedBU(b[1])) =
                    IF Allocatable(b[1], b[2])
                    THEN Cardinality(ProportionRows(b[1])) ELSE 0
        /\ drop_bucket(drop_bucket(KeptRows, "SALES"), "COGS")
              = drop_bucket(drop_bucket(mapped, "SALES"), "COGS")

(***************************************************************************)
(* 14. frame of apply_ifrs16, the lease rows in the pipeline, and the      *)
(*     consolidation against the entities' P&L                             *)
(***************************************************************************)
\* C21: apply_ifrs16 returns the rows of its input when the rent sum is 0, and
\* otherwise the rows of its input, all unchanged and in order (the rent rows
\* with their booked amounts), followed by exactly two new rows; the table
\* handed to it is not modified by the call.
C21_AdditiveNoOp ==
    /\ [](pc = "ifrs16" =>
            /\ RentSum = Zero => result = mapped
            /\ RentSum # Zero =>
                  /\ Len(result) = Len(mapped) + 2
                  /\ SubSeq(result, 1, Len(mapped)) = mapped
                  /\ \A i \in DOMAIN AddedRows : isna(AddedRows[i].numero_compte))
    /\ [][mapped' = mapped]_vars

\* two rent rows and another row went through, followed by the two new rows
C21_Witness ==
    /\ pc = "ifrs16"
    /\ Len(mapped) = 3
    /\ RentSum = Rat(-180)
    /\ Len(result) = 5
    /\ result[1] = mapped[1] /\ result[2] = mapped[2] /\ result[3] = mapped[3]

\* ---- specification: transform_entity applied to ledgers with rent accounts
\* ---- and to mappings that send accounts to the rent-expense line
LeaseLedgerLines ==
    <<Line("601", 80, 10), Line("613", 300, 0), Line("613", 0, 120)>>
LeaseMapRows ==
    [numero_compte : {"601", "613"},
     mapping_pl_detail : {"Rents & other charges", "Furnitures", "i2"},
     mapping_pl_category : {"Structure costs"}]

InitLease ==
    /\ pc = "loaded"
    /\ \E l \in SubTables(LeaseLedgerLines) : fecs = ("FR" :> l)
    /\ \E m \in SeqUpTo(LeaseMapRows, MaxMapRows) : mappings = ("FR" :> m)
    /\ split_ca_cogs = <<>>
    /\ split_rh = <<>>
    /\ total_ms_group = None
    /\ structure = SourceStructure
    /\ entity = "FR"
    /\ fec = <<>> /\ mapping = <<>>
    /\ net = <<>> /\ mapped = <<>> /\ result = <<>> /\ transformed = <<>>
    /\ total_ms_by_group = <<>> /\ ms_handed = <<>> /\ fec_files = <<>>

NextLease == TransformEntityStep
SpecLease == InitLease /\ [][NextLease]_vars

\* the net sum, in the target month, of the accounts of an entity that its
\* mapping sends to the rent-expense line
MappedRent(e) ==
    bucket_total(
        SelectSeq(merge_left(compute_net_by_account(fecs[e], Period), mappings[e]),
                  mapped_on_pl),
        "Rents & other charges")

\* C22 (as claimed): when the accounts an entity's mapping sends to 'Rents &
\* other charges' have a nonzero net sum in the target month, the table
\* returned by transform_entity holds a lease-activation row and a 'D&A on
\* IFRS 16' row that carry that rent sum (the D&A row +rent, the activation
\* row rent up to its sign).
C22_LeaseRowsInPipeline ==
    \A e \in DOMAIN transformed :
        MappedRent(e) # Zero =>
            /\ \E i \in DOMAIN transformed[e] :
                  /\ transformed[e][i].mapping_pl_detail = "D&A on IFRS 16"
                  /\ transformed[e][i].montant_net = MappedRent(e)
            /\ \E i \in DOMAIN transformed[e] :
                  /\ transformed[e][i].mapping_pl_detail = "IFRS 16 activation"
                  /\ transformed[e][i].montant_net
                        \in {MappedRent(e), RNeg(MappedRent(e))}

\* what the code does instead: no table returned by transform_entity holds a
\* lease row, and the rent is found under the code i2
C22_NoLeaseRow ==
    \A e \in DOMAIN transformed :
        /\ RowsUnder(transformed[e], "D&A on IFRS 16") = <<>>
        /\ RowsUnder(transformed[e], "IFRS 16 activation") = <<>>
        /\ RowsUnder(transformed[e], "Rents & other charges") = <<>>

\* ---- the consolidated Total column against the entities' P&L
\* the sum, over a set of available entities, of the values their per-entity
\* P&L hold under a label
RECURSIVE SumOfSeries(_, _)
SumOfSeries(E, label) ==
    IF E = {} THEN Zero
    ELSE LET e == CHOOSE x \in E : TRUE
         IN  RAdd(EntitySeries(e).val[label], SumOfSeries(E \ {e}, label))

\* C23 (as claimed): for every sheet and every label (detail, total, margin),
\* the consolidated value equals the sum over the group's available entities
\* of the values build_pl_entity computed for them; with a single available
\* entity it equals that entity's value.
C23_TotalIsSumOfEntities ==
    pc = "built" =>
        \A sheet \in DOMAIN result : \A l \in StructureLabels :
            result[sheet].Montant[l] = SumOfSeries(GroupOf(sheet), l)

\* what the code does: the equality holds for the labels that no total or
\* margin row carries
C23_DetailLabelsAgree ==
    pc = "built" =>
        \A sheet \in DOMAIN result : \A l \in StructureLabels :
            last_label(structure, l, Computed) = 0 =>
                result[sheet].Montant[l] = SumOfSeries(GroupOf(sheet), l)

====
